---- MODULE Spec2Model ----
(***************************************************************************)
(* The two utility workers of the repository as one state machine:         *)
(*   POST /extract  (pdf-text worker,   src/unnamed/part_000)              *)
(*   POST /parse    (ai-parser worker,  src/packages/ai-parser/src/index.ts)*)
(* Each await of a handler is a step.  Under Spec one request is in flight  *)
(* at a time; under SpecConc two are, and each per-request variable is a    *)
(* function from the requests to the local of each.                         *)
(***************************************************************************)
EXTENDS Integers, Sequences, FiniteSets, TLC

VARIABLES
    svc,          \* which handler serves the request in flight: "none", "extract", "parse"
    pc,           \* "idle", "body" (awaiting the request body), "call" (external call in flight), "done"
    env,          \* c.env: the four credential bindings of the ai-parser worker
    payload,      \* the request body as sent by the caller
    now,          \* performance.now(), in clock ticks
    startTime,    \* const startTime of the handler
    timingStart,  \* const start of withTiming
    calls,        \* external calls started for the request in flight
    outbound,     \* the outbound request handed to fetch / the bytes handed to the engine
    reply,        \* what the external system answered
    resp          \* the response sent to the caller: [status, body]

vars == <<svc, pc, env, payload, now, startTime, timingStart, calls, outbound, reply, resp>>

(***************************************************************************)
(* Bounds of the model.                                                    *)
(***************************************************************************)
TicksPerMs == 2      \* clock resolution: ticks per millisecond
MaxElapsed == 2      \* most ticks that pass during one await
MaxPages == 2        \* most pages the engine reports
SizeSlack == 1       \* sizes within this distance of a limit or a rounding boundary
MaxOver == 1         \* whole units (MiB, KiB) above the limit that sizes reach

None == [t |-> "none"]

(***************************************************************************)
(* JavaScript values.  A string is a sequence of runs [c, n]: n times the  *)
(* character c, adjacent runs having different characters.                 *)
(***************************************************************************)
Undefined == [t |-> "undefined"]
Null == [t |-> "null"]
Bool(b) == [t |-> "boolean", b |-> b]
Num(n) == [t |-> "number", n |-> n]
Str(s) == [t |-> "string", s |-> s]
Arr(items) == [t |-> "array", items |-> items]
Obj(fields) == [t |-> "object", fields |-> fields]
NoFields == [x \in {} |-> Undefined]    \* the fields of {}

Rep(c, n) == IF n = 0 THEN <<>> ELSE <<[c |-> c, n |-> n]>>

RECURSIVE StrLen(_)
StrLen(s) == IF s = <<>> THEN 0 ELSE Head(s).n + StrLen(Tail(s))

\* s.slice(0, k)
RECURSIVE Slice(_, _)
Slice(s, k) ==
    IF s = <<>> \/ k <= 0 THEN <<>>
    ELSE IF Head(s).n >= k THEN <<[c |-> Head(s).c, n |-> k]>>
    ELSE <<Head(s)>> \o Slice(Tail(s), k - Head(s).n)

\* typeof v
TypeOf(v) ==
    CASE v.t = "undefined" -> "undefined"
      [] v.t = "boolean" -> "boolean"
      [] v.t = "number" -> "number"
      [] v.t = "string" -> "string"
      [] OTHER -> "object"

\* ToBoolean(v), as used by !v, v && w, if (v)
Truthy(v) ==
    CASE v.t = "undefined" -> FALSE
      [] v.t = "null" -> FALSE
      [] v.t = "boolean" -> v.b
      [] v.t = "number" -> v.n # 0
      [] v.t = "string" -> StrLen(v.s) > 0
      [] OTHER -> TRUE

\* Fault: Math.floor for Math.round.
MathFloor(num, den) == num \div den

\* Math.round(num / den) for num >= 0, den > 0: the nearest integer, a tie going up
MathRound(num, den) == (2 * num + den) \div (2 * den)

(***************************************************************************)
(* Messages.  A template literal is the sequence of its segments.          *)
(***************************************************************************)
Lit(s) == [k |-> "lit", lit |-> s]
Dec(n) == [k |-> "dec", dec |-> n]
Txt(v) == [k |-> "txt", txt |-> v]     \* ${v}: v is a JavaScript value or a body text

\* new Error(message), and a thrown value that is no Error
Error(message) == [isError |-> TRUE, message |-> message]
NonError == [isError |-> FALSE]

(***************************************************************************)
(* shared/utils.ts                                                          *)
(***************************************************************************)
MagicBytes == <<37, 80, 68, 70, 45>>    \* "%PDF-"

\* Fault: the signature check compares "%PDF" only.
isValidPdfFourBytes(buffer) ==
    IF buffer.byteLength < 5 THEN FALSE
    ELSE SubSeq(buffer.head, 1, 4) = SubSeq(MagicBytes, 1, 4)

\* A buffer is [head, byteLength]: its first min(5, byteLength) bytes and its size.
isValidPdf(buffer) ==
    IF buffer.byteLength < 5 THEN FALSE
    ELSE SubSeq(buffer.head, 1, 5) = MagicBytes

\* withTiming: durationMs of a call started at start and settled at end
withTimingDuration(start, end) == MathRound(end - start, TicksPerMs)

(***************************************************************************)
(* pdf-text worker: POST /extract                                          *)
(***************************************************************************)
maxSize == 50 * 1024 * 1024
MiB == 1024 * 1024

Heads(n) ==
    { h \in [1..n -> {0, 37, 80, 68, 70, 45}] :
        \A i \in 1..n : h[i] \in {0, MagicBytes[i]} }

Min(a, b) == IF a < b THEN a ELSE b

ByteLengths ==
    (0..6)
    \cup { maxSize + d : d \in (0 - SizeSlack)..SizeSlack }
    \cup { maxSize + (k * MiB) + (MiB \div 2) + d : k \in 0..(MaxOver - 1), d \in (0 - SizeSlack)..SizeSlack }
    \cup { maxSize + (k * MiB) : k \in 1..MaxOver }

Buffers ==
    { [head |-> h, byteLength |-> n] : h \in Heads(5), n \in { m \in ByteLengths : m >= 5 } }
    \cup UNION { { [head |-> h, byteLength |-> n] : h \in Heads(n) } : n \in 0..4 }

\* What the engine (getDocumentProxy + extractText) may do with the bytes.
EngineResults ==
    { [text |-> t, totalPages |-> p] :
        t \in {Undefined, Str(<<>>), Str(Rep("a", 3))}, p \in 0..MaxPages }
EngineFailures == { Error(<<Lit("Invalid PDF structure.")>>), NonError }

ExtractResponse(status, body) == [status |-> status, body |-> body]

\* Fault: the limit itself is rejected (>= for >).
BufferTooLargeInclusive(buffer) == buffer.byteLength >= maxSize

\* buffer.byteLength > maxSize
BufferTooLarge(buffer) == buffer.byteLength > maxSize

\* Fault: the size is checked before the signature.
ExtractRejectionSizeFirst(buffer) ==
    IF buffer.byteLength = 0
    THEN ExtractResponse(400, [success |-> FALSE, text |-> <<>>, pageCount |-> 0,
                               error |-> <<Lit("No PDF data provided")>>])
    ELSE IF BufferTooLarge(buffer)
    THEN ExtractResponse(413, [success |-> FALSE, text |-> <<>>, pageCount |-> 0,
                               error |-> <<Lit("PDF too large: "),
                                           Dec(MathRound(buffer.byteLength, MiB)),
                                           Lit("MB exceeds 50MB limit")>>])
    ELSE IF ~isValidPdf(buffer)
    THEN ExtractResponse(400, [success |-> FALSE, text |-> <<>>, pageCount |-> 0,
                               error |-> <<Lit("Invalid PDF format: missing PDF header")>>])
    ELSE None

\* The validation of lines 71-103: the rejection, or None when the engine is to run.
ExtractRejection(buffer) ==
    IF buffer.byteLength = 0
    THEN ExtractResponse(400, [success |-> FALSE, text |-> <<>>, pageCount |-> 0,
                               error |-> <<Lit("No PDF data provided")>>])
    ELSE IF ~isValidPdf(buffer)
    THEN ExtractResponse(400, [success |-> FALSE, text |-> <<>>, pageCount |-> 0,
                               error |-> <<Lit("Invalid PDF format: missing PDF header")>>])
    ELSE IF BufferTooLarge(buffer)
    THEN ExtractResponse(413, [success |-> FALSE, text |-> <<>>, pageCount |-> 0,
                               error |-> <<Lit("PDF too large: "),
                                           Dec(MathRound(buffer.byteLength, MiB)),
                                           Lit("MB exceeds 50MB limit")>>])
    ELSE None

\* Fault: no catch block; the thrown value reaches the framework, which answers
\* with its own plain text.
ExtractCatchUnhandled(error, start, end) ==
    ExtractResponse(500, [plain |-> <<Lit("Internal Server Error")>>])

\* The catch block of lines 120-135.
ExtractCatch(error, start, end) ==
    ExtractResponse(500, [success |-> FALSE, text |-> <<>>, pageCount |-> 0,
                          error |-> IF error.isError THEN error.message
                                    ELSE <<Lit("Unknown extraction error")>>,
                          processingTimeMs |-> MathRound(end - start, TicksPerMs)])

\* text ?? ""
TextOrEmpty(t) == IF t.t \in {"undefined", "null"} THEN <<>> ELSE t.s

\* Fault: the success response leaves the timing out.
ExtractSuccessNoTiming(result, durationMs) ==
    ExtractResponse(200, [success |-> TRUE, text |-> TextOrEmpty(result.text),
                          pageCount |-> result.totalPages])

ExtractSuccess(result, durationMs) ==
    ExtractResponse(200, [success |-> TRUE, text |-> TextOrEmpty(result.text),
                          pageCount |-> result.totalPages,
                          processingTimeMs |-> durationMs])

(***************************************************************************)
(* JSON texts.  An HTTP body is either a text that is no JSON (raw) or the *)
(* serialisation of a JSON value (json); response.json() and c.req.json()  *)
(* give the value of the second and throw on the first.                    *)
(***************************************************************************)
Raw(s) == [k |-> "raw", raw |-> s]
Ser(v) == [k |-> "json", json |-> v]

SyntaxError == Error(<<Lit("Unexpected token in JSON")>>)
TypeErrorRead(what, key) ==
    Error(<<Lit("Cannot read properties of "), Lit(what), Lit(" (reading '"), Lit(key), Lit("')")>>)

\* await x.json()
ReadJson(body) ==
    IF body.k = "json" THEN [ok |-> TRUE, value |-> body.json]
    ELSE [ok |-> FALSE, error |-> SyntaxError]

\* v.key for the keys this code reads (no array, string or number has them)
Get(v, key) ==
    IF v.t = "object" /\ key \in DOMAIN v.fields THEN v.fields[key] ELSE Undefined

\* v?.key
GetOpt(v, key) == IF v.t \in {"undefined", "null"} THEN Undefined ELSE Get(v, key)

\* v?.[0]
FirstOpt(v) ==
    IF v.t = "array" /\ Len(v.items) > 0 THEN v.items[1]
    ELSE IF v.t = "string" /\ StrLen(v.s) > 0 THEN Str(Slice(v.s, 1))
    ELSE Undefined

\* JSON.parse(s) over the alphabet x { } 1 n u l of the model's texts: the JSON
\* texts over it are null, {} and the numbers 1, 11, 111, ...
NullText == <<[c |-> "n", n |-> 1], [c |-> "u", n |-> 1], [c |-> "l", n |-> 2]>>
EmptyObjectText == <<[c |-> "{", n |-> 1], [c |-> "}", n |-> 1]>>
ObjectObjectText ==
    <<[c |-> "[", n |-> 1], [c |-> "o", n |-> 1], [c |-> "b", n |-> 1], [c |-> "j", n |-> 1],
      [c |-> "e", n |-> 1], [c |-> "c", n |-> 1], [c |-> "t", n |-> 1], [c |-> " ", n |-> 1],
      [c |-> "O", n |-> 1], [c |-> "b", n |-> 1], [c |-> "j", n |-> 1], [c |-> "e", n |-> 1],
      [c |-> "c", n |-> 1], [c |-> "t", n |-> 1], [c |-> "]", n |-> 1]>>

RECURSIVE Ones(_)
Ones(n) == IF n = 0 THEN 0 ELSE 10 * Ones(n - 1) + 1

JSONParse(s) ==
    IF s = NullText THEN [ok |-> TRUE, value |-> Null]
    ELSE IF s = EmptyObjectText THEN [ok |-> TRUE, value |-> Obj(NoFields)]
    ELSE IF Len(s) = 1 /\ s[1].c = "1" THEN [ok |-> TRUE, value |-> Num(Ones(s[1].n))]
    ELSE [ok |-> FALSE, error |-> SyntaxError]

\* String(v), the conversion JSON.parse applies to its argument
RECURSIVE OnesLen(_)
OnesLen(n) == IF n = 0 THEN 0 ELSE 1 + OnesLen(n \div 10)
ToJSString(v) ==
    CASE v.t = "string" -> v.s
      [] v.t = "number" -> Rep("1", OnesLen(v.n))
      [] OTHER -> ObjectObjectText

(***************************************************************************)
(* ai-parser worker: POST /parse                                           *)
(***************************************************************************)
maxTextSize == 100 * 1024
SliceLen == 100
KiB == 1024

NoConfigMessage ==
    <<Lit("No API configuration found. Set CF_AI_GATEWAY_* or OPENROUTER_API_KEY secrets.")>>

\* Fault: the direct endpoint is the fallback whether or not its key is set.
buildApiUrlAlwaysFallsBack(e) ==
    IF Truthy(e.CF_AI_GATEWAY_ACCOUNT_ID) /\ Truthy(e.CF_AI_GATEWAY_ID) /\ Truthy(e.CF_AIG_AUTH_TOKEN)
    THEN [ok |-> TRUE,
          url |-> <<Lit("https://gateway.ai.cloudflare.com/v1/"), Txt(e.CF_AI_GATEWAY_ACCOUNT_ID),
                    Lit("/"), Txt(e.CF_AI_GATEWAY_ID), Lit("/openrouter"), Lit("/chat/completions")>>,
          authHeader |-> "cf-aig-authorization",
          authValue |-> <<Lit("Bearer "), Txt(e.CF_AIG_AUTH_TOKEN)>>]
    ELSE [ok |-> TRUE,
          url |-> <<Lit("https://openrouter.ai/api/v1/chat/completions")>>,
          authHeader |-> "Authorization",
          authValue |-> <<Lit("Bearer "), Txt(e.OPENROUTER_API_KEY)>>]

\* Fault: the direct key is looked at first.
buildApiUrlPrefersDirect(e) ==
    IF Truthy(e.OPENROUTER_API_KEY)
    THEN [ok |-> TRUE,
          url |-> <<Lit("https://openrouter.ai/api/v1/chat/completions")>>,
          authHeader |-> "Authorization",
          authValue |-> <<Lit("Bearer "), Txt(e.OPENROUTER_API_KEY)>>]
    ELSE IF Truthy(e.CF_AI_GATEWAY_ACCOUNT_ID) /\ Truthy(e.CF_AI_GATEWAY_ID) /\ Truthy(e.CF_AIG_AUTH_TOKEN)
    THEN [ok |-> TRUE,
          url |-> <<Lit("https://gateway.ai.cloudflare.com/v1/"), Txt(e.CF_AI_GATEWAY_ACCOUNT_ID),
                    Lit("/"), Txt(e.CF_AI_GATEWAY_ID), Lit("/openrouter"), Lit("/chat/completions")>>,
          authHeader |-> "cf-aig-authorization",
          authValue |-> <<Lit("Bearer "), Txt(e.CF_AIG_AUTH_TOKEN)>>]
    ELSE [ok |-> FALSE, error |-> Error(NoConfigMessage)]

\* buildApiUrl: the endpoint, or the thrown Error
buildApiUrl(e) ==
    IF Truthy(e.CF_AI_GATEWAY_ACCOUNT_ID) /\ Truthy(e.CF_AI_GATEWAY_ID) /\ Truthy(e.CF_AIG_AUTH_TOKEN)
    THEN [ok |-> TRUE,
          url |-> <<Lit("https://gateway.ai.cloudflare.com/v1/"), Txt(e.CF_AI_GATEWAY_ACCOUNT_ID),
                    Lit("/"), Txt(e.CF_AI_GATEWAY_ID), Lit("/openrouter"), Lit("/chat/completions")>>,
          authHeader |-> "cf-aig-authorization",
          authValue |-> <<Lit("Bearer "), Txt(e.CF_AIG_AUTH_TOKEN)>>]
    ELSE IF Truthy(e.OPENROUTER_API_KEY)
    THEN [ok |-> TRUE,
          url |-> <<Lit("https://openrouter.ai/api/v1/chat/completions")>>,
          authHeader |-> "Authorization",
          authValue |-> <<Lit("Bearer "), Txt(e.OPENROUTER_API_KEY)>>]
    ELSE [ok |-> FALSE, error |-> Error(NoConfigMessage)]

ParseResponse(status, body) == [status |-> status, body |-> body]

\* Fault: the error body is built like createErrorResponse, without data.
ParseCatchNoData(error, start, end) ==
    ParseResponse(500, [success |-> FALSE,
                        error |-> IF error.isError THEN error.message
                                  ELSE <<Lit("Unknown error")>>,
                        processingTimeMs |-> MathRound(end - start, TicksPerMs)])

\* The catch block of lines 263-277.
ParseCatch(error, start, end) ==
    ParseResponse(500, [success |-> FALSE, data |-> Null,
                        error |-> IF error.isError THEN error.message
                                  ELSE <<Lit("Unknown error")>>,
                        processingTimeMs |-> MathRound(end - start, TicksPerMs)])

\* Fault: the default is taken with ||, so it replaces every falsy value.
DefaultIfFalsy(v, dflt) == IF Truthy(v) THEN v ELSE dflt

\* x = dflt in a destructuring pattern: the default replaces undefined only
Default(v, dflt) == IF v.t = "undefined" THEN dflt ELSE v

\* "Extract the requested information from the text and return valid JSON matching the schema."
DefaultSystemPromptText ==
    <<[c |-> "E", n |-> 1], [c |-> "x", n |-> 1], [c |-> "t", n |-> 1], [c |-> "r", n |-> 1],
      [c |-> "a", n |-> 1], [c |-> "c", n |-> 1], [c |-> "t", n |-> 1], [c |-> " ", n |-> 1],
      [c |-> "t", n |-> 1], [c |-> "h", n |-> 1], [c |-> "e", n |-> 1], [c |-> " ", n |-> 1],
      [c |-> "r", n |-> 1], [c |-> "e", n |-> 1], [c |-> "q", n |-> 1], [c |-> "u", n |-> 1],
      [c |-> "e", n |-> 1], [c |-> "s", n |-> 1], [c |-> "t", n |-> 1], [c |-> "e", n |-> 1],
      [c |-> "d", n |-> 1], [c |-> " ", n |-> 1], [c |-> "i", n |-> 1], [c |-> "n", n |-> 1],
      [c |-> "f", n |-> 1], [c |-> "o", n |-> 1], [c |-> "r", n |-> 1], [c |-> "m", n |-> 1],
      [c |-> "a", n |-> 1], [c |-> "t", n |-> 1], [c |-> "i", n |-> 1], [c |-> "o", n |-> 1],
      [c |-> "n", n |-> 1], [c |-> " ", n |-> 1], [c |-> "f", n |-> 1], [c |-> "r", n |-> 1],
      [c |-> "o", n |-> 1], [c |-> "m", n |-> 1], [c |-> " ", n |-> 1], [c |-> "t", n |-> 1],
      [c |-> "h", n |-> 1], [c |-> "e", n |-> 1], [c |-> " ", n |-> 1], [c |-> "t", n |-> 1],
      [c |-> "e", n |-> 1], [c |-> "x", n |-> 1], [c |-> "t", n |-> 1], [c |-> " ", n |-> 1],
      [c |-> "a", n |-> 1], [c |-> "n", n |-> 1], [c |-> "d", n |-> 1], [c |-> " ", n |-> 1],
      [c |-> "r", n |-> 1], [c |-> "e", n |-> 1], [c |-> "t", n |-> 1], [c |-> "u", n |-> 1],
      [c |-> "r", n |-> 1], [c |-> "n", n |-> 1], [c |-> " ", n |-> 1], [c |-> "v", n |-> 1],
      [c |-> "a", n |-> 1], [c |-> "l", n |-> 1], [c |-> "i", n |-> 1], [c |-> "d", n |-> 1],
      [c |-> " ", n |-> 1], [c |-> "J", n |-> 1], [c |-> "S", n |-> 1], [c |-> "O", n |-> 1],
      [c |-> "N", n |-> 1], [c |-> " ", n |-> 1], [c |-> "m", n |-> 1], [c |-> "a", n |-> 1],
      [c |-> "t", n |-> 1], [c |-> "c", n |-> 1], [c |-> "h", n |-> 1], [c |-> "i", n |-> 1],
      [c |-> "n", n |-> 1], [c |-> "g", n |-> 1], [c |-> " ", n |-> 1], [c |-> "t", n |-> 1],
      [c |-> "h", n |-> 1], [c |-> "e", n |-> 1], [c |-> " ", n |-> 1], [c |-> "s", n |-> 1],
      [c |-> "c", n |-> 1], [c |-> "h", n |-> 1], [c |-> "e", n |-> 1], [c |-> "m", n |-> 1],
      [c |-> "a", n |-> 1], [c |-> ".", n |-> 1]>>
\* "google/gemini-2.5-flash-lite"
DefaultModelText ==
    <<[c |-> "g", n |-> 1], [c |-> "o", n |-> 2], [c |-> "g", n |-> 1], [c |-> "l", n |-> 1],
      [c |-> "e", n |-> 1], [c |-> "/", n |-> 1], [c |-> "g", n |-> 1], [c |-> "e", n |-> 1],
      [c |-> "m", n |-> 1], [c |-> "i", n |-> 1], [c |-> "n", n |-> 1], [c |-> "i", n |-> 1],
      [c |-> "-", n |-> 1], [c |-> "2", n |-> 1], [c |-> ".", n |-> 1], [c |-> "5", n |-> 1],
      [c |-> "-", n |-> 1], [c |-> "f", n |-> 1], [c |-> "l", n |-> 1], [c |-> "a", n |-> 1],
      [c |-> "s", n |-> 1], [c |-> "h", n |-> 1], [c |-> "-", n |-> 1], [c |-> "l", n |-> 1],
      [c |-> "i", n |-> 1], [c |-> "t", n |-> 1], [c |-> "e", n |-> 1]>>
DefaultSystemPrompt == Str(DefaultSystemPromptText)
DefaultModel == Str(DefaultModelText)

\* The JSON body of the outbound request, lines 162-204.
OutboundBody(body) ==
    LET providerSort == Get(body, "providerSort")
        base == [model |-> Default(Get(body, "model"), DefaultModel),
                 system |-> Default(Get(body, "systemPrompt"), DefaultSystemPrompt),
                 user |-> Get(body, "text"),
                 strict |-> TRUE,
                 schema |-> Get(body, "schema"),
                 temperature |-> Default(Get(body, "temperature"), Num(0)),
                 max_tokens |-> Default(Get(body, "maxTokens"), Num(4096))]
    IN  IF Truthy(providerSort)
        THEN [provider |-> [sort |-> providerSort, require_parameters |-> TRUE,
                            allow_fallbacks |-> FALSE]] @@ base
        ELSE base

\* !body.text || typeof body.text !== "string"
TextInvalid(body) == ~Truthy(Get(body, "text")) \/ TypeOf(Get(body, "text")) # "string"

\* Fault: the schema is only type-checked when it is there.
SchemaInvalidIfPresent(body) ==
    Get(body, "schema").t # "undefined" /\ TypeOf(Get(body, "schema")) # "object"

\* !body.schema || typeof body.schema !== "object"
SchemaInvalid(body) == ~Truthy(Get(body, "schema")) \/ TypeOf(Get(body, "schema")) # "object"

\* body.text.length > maxTextSize
TextTooLarge(body) == StrLen(Get(body, "text").s) > maxTextSize

\* Lines 116-205, from the parsed request body to the first of: a response, a
\* thrown error, the fetch.
ParseDecide(body, e) ==
    IF body.t \in {"undefined", "null"}
    THEN [kind |-> "throw", error |-> TypeErrorRead(body.t, "text")]
    ELSE IF TextInvalid(body)
    THEN [kind |-> "respond",
          resp |-> ParseResponse(400, [success |-> FALSE, data |-> Null,
                                       error |-> <<Lit("Missing or invalid 'text' field")>>])]
    ELSE IF SchemaInvalid(body)
    THEN [kind |-> "respond",
          resp |-> ParseResponse(400, [success |-> FALSE, data |-> Null,
                                       error |-> <<Lit("Missing or invalid 'schema' field")>>])]
    ELSE IF TextTooLarge(body)
    THEN [kind |-> "respond",
          resp |-> ParseResponse(413, [success |-> FALSE, data |-> Null,
                                       error |-> <<Lit("Text too large: "),
                                                   Dec(MathRound(StrLen(Get(body, "text").s), KiB)),
                                                   Lit("KB exceeds 100KB limit")>>])]
    ELSE LET apiConfig == buildApiUrl(e) IN
         IF ~apiConfig.ok
         THEN [kind |-> "respond",
               resp |-> ParseResponse(500, [success |-> FALSE, data |-> Null,
                                            error |-> IF apiConfig.error.isError
                                                      THEN apiConfig.error.message
                                                      ELSE <<Lit("API configuration error")>>])]
         ELSE [kind |-> "fetch",
               request |-> [url |-> apiConfig.url, authHeader |-> apiConfig.authHeader,
                            authValue |-> apiConfig.authValue, body |-> OutboundBody(body)]]

\* usage of the success response, lines 252-258
Usage(apiResult) ==
    LET u == Get(apiResult, "usage") IN
    IF Truthy(u)
    THEN [usage |-> [promptTokens |-> Get(u, "prompt_tokens"),
                     completionTokens |-> Get(u, "completion_tokens"),
                     totalTokens |-> Get(u, "total_tokens")]]
    ELSE <<>>

\* Fault: the content is put into the message whole.
ExcerptWhole(content) == content.s

\* content.slice(0, 100)
Excerpt(content) == Slice(content.s, SliceLen)

\* Lines 222-262, from the parsed reply to the response or a thrown error.
ParseNormalize(apiResult, durationMs) ==
    IF apiResult.t \in {"undefined", "null"}
    THEN [kind |-> "throw", error |-> TypeErrorRead(apiResult.t, "choices")]
    ELSE
    LET content == GetOpt(GetOpt(FirstOpt(Get(apiResult, "choices")), "message"), "content") IN
    IF ~Truthy(content)
    THEN [kind |-> "respond",
          resp |-> ParseResponse(500, [success |-> FALSE, data |-> Null,
                                       error |-> <<Lit("AI returned empty response")>>,
                                       processingTimeMs |-> durationMs])]
    ELSE LET parsed == JSONParse(ToJSString(content)) IN
         IF ~parsed.ok
         THEN IF content.t # "string"
              THEN [kind |-> "throw", error |-> Error(<<Lit("content.slice is not a function")>>)]
              ELSE [kind |-> "respond",
                    resp |-> ParseResponse(500, [success |-> FALSE, data |-> Null,
                                                 error |-> <<Lit("AI returned invalid JSON: "),
                                                             Txt(Str(Excerpt(content))),
                                                             Lit("...")>>,
                                                 processingTimeMs |-> durationMs])]
         ELSE [kind |-> "respond",
               resp |-> ParseResponse(200, Usage(apiResult)
                                           @@ [success |-> TRUE, data |-> parsed.value,
                                               processingTimeMs |-> durationMs])]

(***************************************************************************)
(* The inputs of POST /parse: credentials, request bodies, upstream replies *)
(***************************************************************************)
Key == Str(Rep("k", 1))

Envs ==
    [CF_AI_GATEWAY_ACCOUNT_ID : {Undefined, Key}, CF_AI_GATEWAY_ID : {Undefined, Key},
     CF_AIG_AUTH_TOKEN : {Undefined, Key}, OPENROUTER_API_KEY : {Undefined, Key}]
    \cup { [CF_AI_GATEWAY_ACCOUNT_ID |-> Key, CF_AI_GATEWAY_ID |-> Key,
            CF_AIG_AUTH_TOKEN |-> Str(<<>>), OPENROUTER_API_KEY |-> Undefined],
           [CF_AI_GATEWAY_ACCOUNT_ID |-> Undefined, CF_AI_GATEWAY_ID |-> Undefined,
            CF_AIG_AUTH_TOKEN |-> Undefined, OPENROUTER_API_KEY |-> Str(<<>>)] }

TextLengths ==
    {1}
    \cup { maxTextSize + d : d \in (0 - SizeSlack)..SizeSlack }
    \cup { maxTextSize + (k * KiB) + (KiB \div 2) + d : k \in 0..(MaxOver - 1), d \in (0 - SizeSlack)..SizeSlack }
    \cup { maxTextSize + (k * KiB) : k \in 1..MaxOver }

SomeSchema == Obj([type |-> Str(Rep("o", 1))])

TextValues ==
    {Null, Num(0), Num(1), Bool(TRUE), Str(<<>>), Arr(<<>>), Obj(NoFields)}
    \cup { Str(Rep("a", n)) : n \in TextLengths }
SchemaValues ==
    {Null, Bool(TRUE), Num(1), Str(Rep("s", 1)), Arr(<<>>), Obj(NoFields), SomeSchema}

\* The objects with any text or none and any schema or none.
PlainRequests ==
    { Obj([text |-> t, schema |-> sch]) : t \in TextValues, sch \in SchemaValues }
    \cup { Obj([text |-> t]) : t \in TextValues }
    \cup { Obj([schema |-> sch]) : sch \in SchemaValues }
    \cup { Obj(NoFields) }

\* Valid requests that also carry optional fields.
OptionRequests ==
    LET base == [text |-> Str(Rep("a", 1)), schema |-> SomeSchema] IN
    { Obj(opt @@ base) :
        opt \in { [systemPrompt |-> Str(<<>>)], [systemPrompt |-> Null],
                  [model |-> Str(Rep("m", 1))], [temperature |-> Num(1)],
                  [maxTokens |-> Num(0)], [providerSort |-> Arr(<<Str(Rep("p", 1))>>)],
                  [providerSort |-> Null], [providerSort |-> Str(<<>>)],
                  [systemPrompt |-> Str(Rep("s", 1)), model |-> Str(Rep("m", 1)),
                   temperature |-> Num(0), maxTokens |-> Num(1),
                   providerSort |-> Arr(<<>>)] } }

ParseBodies ==
    { Raw(<<>>), Raw(Rep("x", 1)) }
    \cup { Ser(v) : v \in {Null, Num(1), Str(Rep("x", 1)), Arr(<<>>)} }
    \cup { Ser(v) : v \in PlainRequests \cup OptionRequests }

Contents ==
    { Null, Str(<<>>), Str(NullText), Str(EmptyObjectText), Str(Rep("1", 2)),
      Str(Rep("x", 1)), Str(EmptyObjectText \o Rep("x", 1)),
      Num(0), Num(11), Obj(NoFields) }
    \cup { Str(Rep("x", SliceLen + d)) : d \in (0 - SizeSlack)..SizeSlack }
    \cup { Str(Rep("{", 1) \o Rep("x", SliceLen + d)) : d \in (0 - SizeSlack)..SizeSlack }

ChatReply(content) ==
    Obj([choices |-> Arr(<<Obj([message |-> Obj([content |-> content])])>>)])

SomeUsage == Obj([prompt_tokens |-> Num(1), completion_tokens |-> Num(1), total_tokens |-> Num(11)])

OkBodies ==
    { Raw(<<>>), Raw(Rep("x", 1)) }
    \cup { Ser(v) : v \in { Null, Num(1), Str(Rep("x", 1)), Obj(NoFields),
                            Obj([choices |-> Null]), Obj([choices |-> Arr(<<>>)]),
                            Obj([choices |-> Arr(<<Null>>)]),
                            Obj([choices |-> Arr(<<Obj(NoFields)>>)]),
                            Obj([choices |-> Arr(<<Obj([message |-> Null])>>)]),
                            Obj([choices |-> Arr(<<Obj([message |-> Obj(NoFields)])>>)]),
                            Obj([choices |-> Arr(<<Obj([message |-> Obj([content |-> Str(EmptyObjectText)])]), Null>>),
                                 usage |-> SomeUsage]),
                            Obj([choices |-> Arr(<<Obj([message |-> Obj([content |-> Str(NullText)])])>>),
                                 usage |-> Null]) } }
    \cup { Ser(ChatReply(c)) : c \in Contents }

ErrorBodies == { Raw(<<>>), Raw(Rep("x", 3)), Ser(ChatReply(Str(EmptyObjectText))) }

\* Fault: only 4xx and 5xx count as failures.
OkBelow400(status) == status >= 200 /\ status < 400

\* response.ok
Ok(status) == status >= 200 /\ status <= 299

Replies ==
    { [status |-> st, body |-> b] : st \in {200}, b \in OkBodies }
    \cup { [status |-> 299, body |-> Ser(ChatReply(Str(EmptyObjectText)))] }
    \cup { [status |-> st, body |-> b] : st \in {300, 404, 500}, b \in ErrorBodies }

TransportFailures == { Error(<<Lit("fetch failed")>>), NonError }

\* response.text()
BodyText(body) == body

Init ==
    /\ svc = "none"
    /\ pc = "idle"
    /\ env = None
    /\ payload = None
    /\ now = 0
    /\ startTime = 0
    /\ timingStart = 0
    /\ calls = 0
    /\ outbound = None
    /\ reply = None
    /\ resp = None

\* A POST /extract arrives: startTime is read, the body is awaited.
ExtractRequest ==
    /\ pc = "idle"
    /\ \E buffer \in Buffers, t \in 0..1 :
        /\ payload' = buffer
        /\ now' = t
        /\ startTime' = t
    /\ svc' = "extract"
    /\ pc' = "body"
    /\ UNCHANGED <<env, timingStart, calls, outbound, reply, resp>>

\* The body has arrived: validation, then either a rejection or the engine is started.
ExtractValidate ==
    /\ svc = "extract" /\ pc = "body"
    /\ \E d \in 0..MaxElapsed : now' = now + d
    /\ LET rejection == ExtractRejection(payload) IN
        IF rejection # None
        THEN /\ resp' = rejection
             /\ pc' = "done"
             /\ UNCHANGED <<timingStart, calls, outbound>>
        ELSE /\ timingStart' = now'
             /\ calls' = calls + 1
             /\ outbound' = payload
             /\ pc' = "call"
             /\ resp' = None
    /\ UNCHANGED <<svc, env, payload, startTime, reply>>

\* The engine returns text and page count.
ExtractEngineReturns ==
    /\ svc = "extract" /\ pc = "call"
    /\ \E result \in EngineResults, d \in 0..MaxElapsed :
        /\ now' = now + d
        /\ reply' = result
        /\ resp' = ExtractSuccess(result, withTimingDuration(timingStart, now'))
    /\ pc' = "done"
    /\ UNCHANGED <<svc, env, payload, startTime, timingStart, calls, outbound>>

\* The engine throws.
ExtractEngineFails ==
    /\ svc = "extract" /\ pc = "call"
    /\ \E error \in EngineFailures, d \in 0..MaxElapsed :
        /\ now' = now + d
        /\ reply' = error
        /\ resp' = ExtractCatch(error, startTime, now')
    /\ pc' = "done"
    /\ UNCHANGED <<svc, env, payload, startTime, timingStart, calls, outbound>>

\* A POST /parse arrives: startTime is read, the JSON body is awaited.
ParseRequest ==
    /\ pc = "idle"
    /\ \E body \in ParseBodies, e \in Envs, t \in 0..1 :
        /\ payload' = body
        /\ env' = e
        /\ now' = t
        /\ startTime' = t
    /\ svc' = "parse"
    /\ pc' = "body"
    /\ UNCHANGED <<timingStart, calls, outbound, reply, resp>>

\* c.req.json() settles: validation and endpoint resolution, then a response
\* or the fetch is started inside withTiming.
ParseValidate ==
    /\ svc = "parse" /\ pc = "body"
    /\ \E d \in 0..MaxElapsed : now' = now + d
    /\ LET read == ReadJson(payload)
           step == IF read.ok THEN ParseDecide(read.value, env)
                   ELSE [kind |-> "throw", error |-> read.error]
       IN  CASE step.kind = "throw" ->
                  /\ resp' = ParseCatch(step.error, startTime, now')
                  /\ pc' = "done"
                  /\ UNCHANGED <<timingStart, calls, outbound>>
             [] step.kind = "respond" ->
                  /\ resp' = step.resp
                  /\ pc' = "done"
                  /\ UNCHANGED <<timingStart, calls, outbound>>
             [] step.kind = "fetch" ->
                  /\ timingStart' = now'
                  /\ calls' = calls + 1
                  /\ outbound' = step.request
                  /\ pc' = "call"
                  /\ resp' = None
    /\ UNCHANGED <<svc, env, payload, startTime, reply>>

\* Fault: a rejected fetch is tried once more.
ParseFetchFailsRetry ==
    /\ svc = "parse" /\ pc = "call"
    /\ \E error \in TransportFailures, d \in 0..MaxElapsed :
        /\ now' = now + d
        /\ IF calls < 2
           THEN /\ calls' = calls + 1
                /\ UNCHANGED <<pc, reply, resp>>
           ELSE /\ reply' = error
                /\ resp' = ParseCatch(error, startTime, now')
                /\ pc' = "done"
                /\ UNCHANGED calls
    /\ UNCHANGED <<svc, env, payload, startTime, timingStart, outbound>>

\* fetch rejects: the outer catch answers.
ParseFetchFails ==
    /\ svc = "parse" /\ pc = "call"
    /\ \E error \in TransportFailures, d \in 0..MaxElapsed :
        /\ now' = now + d
        /\ reply' = error
        /\ resp' = ParseCatch(error, startTime, now')
    /\ pc' = "done"
    /\ UNCHANGED <<svc, env, payload, startTime, timingStart, calls, outbound>>

\* fetch resolves with a status that is not ok: the body text is thrown.
ParseUpstreamError ==
    /\ svc = "parse" /\ pc = "call"
    /\ \E r \in Replies, d \in 0..MaxElapsed :
        /\ ~Ok(r.status)
        /\ now' = now + d
        /\ reply' = r
        /\ resp' = ParseCatch(Error(<<Lit("API error ("), Dec(r.status), Lit("): "),
                                      Txt(BodyText(r.body))>>),
                              startTime, now')
    /\ pc' = "done"
    /\ UNCHANGED <<svc, env, payload, startTime, timingStart, calls, outbound>>

\* fetch resolves with an ok status: the body is read as JSON and normalized.
ParseUpstreamOk ==
    /\ svc = "parse" /\ pc = "call"
    /\ \E r \in Replies, d \in 0..MaxElapsed :
        /\ Ok(r.status)
        /\ now' = now + d
        /\ reply' = r
        /\ LET read == ReadJson(r.body)
               step == IF read.ok
                       THEN ParseNormalize(read.value, withTimingDuration(timingStart, now'))
                       ELSE [kind |-> "throw", error |-> read.error]
           IN  resp' = IF step.kind = "throw"
                       THEN ParseCatch(step.error, startTime, now')
                       ELSE step.resp
    /\ pc' = "done"
    /\ UNCHANGED <<svc, env, payload, startTime, timingStart, calls, outbound>>

\* GET /health of the ai-parser worker, lines 63-75.
Health(e) ==
    LET hasGateway == Truthy(e.CF_AI_GATEWAY_ACCOUNT_ID) /\ Truthy(e.CF_AI_GATEWAY_ID)
        hasDirectKey == Truthy(e.OPENROUTER_API_KEY)
    IN  [status |-> 200,
         body |-> [status |-> "ok", service |-> "ai-parser",
                   config |-> [aiGateway |-> hasGateway, directOpenRouter |-> hasDirectKey]]]

\* A GET /health arrives at the ai-parser worker and is answered at once.
HealthRequest ==
    /\ pc = "idle"
    /\ \E e \in Envs :
        /\ env' = e
        /\ resp' = Health(e)
    /\ svc' = "health"
    /\ pc' = "done"
    /\ UNCHANGED <<payload, now, startTime, timingStart, calls, outbound, reply>>

\* A GET /health arrives at the pdf-text worker and is answered at once.
PdfHealthRequest ==
    /\ pc = "idle"
    /\ resp' = [status |-> 200, body |-> [status |-> "ok", service |-> "pdf-text"]]
    /\ svc' = "pdf-health"
    /\ pc' = "done"
    /\ UNCHANGED <<env, payload, now, startTime, timingStart, calls, outbound, reply>>

\* The response has been returned: the request's values are dropped.
RequestDone ==
    /\ pc = "done"
    /\ svc' = "none"
    /\ pc' = "idle"
    /\ env' = None
    /\ payload' = None
    /\ now' = 0
    /\ startTime' = 0
    /\ timingStart' = 0
    /\ calls' = 0
    /\ outbound' = None
    /\ reply' = None
    /\ resp' = None

Next ==
    \/ ExtractRequest
    \/ ExtractValidate
    \/ ExtractEngineReturns
    \/ ExtractEngineFails
    \/ ParseRequest
    \/ ParseValidate
    \/ ParseFetchFails
    \/ ParseUpstreamError
    \/ ParseUpstreamOk
    \/ HealthRequest
    \/ PdfHealthRequest
    \/ RequestDone

Spec == Init /\ [][Next]_vars

(***************************************************************************)
(* Vocabulary of the properties, stated on the inputs and the response.    *)
(***************************************************************************)
ParseDone == svc = "parse" /\ pc = "done"
ExtractDone == svc = "extract" /\ pc = "done"

\* The request body is JSON and a JSON object.
BodyIsObject == payload.k = "json" /\ payload.json.t = "object"
HasField(key) == key \in DOMAIN payload.json.fields
Field(key) == payload.json.fields[key]

\* A credential that is set (an empty binding is not).
Present(v) == v.t = "string" /\ v.s # <<>>
GatewayComplete ==
    Present(env.CF_AI_GATEWAY_ACCOUNT_ID) /\ Present(env.CF_AI_GATEWAY_ID) /\ Present(env.CF_AIG_AUTH_TOKEN)
DirectPresent == Present(env.OPENROUTER_API_KEY)

\* An error response of /parse: the status, success=false and data=null.
ParseFailure(status) ==
    /\ resp.status = status
    /\ resp.body.success = FALSE
    /\ "data" \in DOMAIN resp.body /\ resp.body.data = Null

\* A request that passes the three validations in the spec's sense: a string text of
\* 1..102400 characters and a JSON object as schema.
ValidRequest ==
    /\ BodyIsObject /\ HasField("text") /\ HasField("schema")
    /\ Field("text").t = "string"
    /\ StrLen(Field("text").s) >= 1 /\ StrLen(Field("text").s) <= 102400
    /\ Field("schema").t = "object"

\* C1: a POST /parse whose JSON body is an object without text or without schema is
\* answered 400 with success=false and data=null, whatever the credentials, and no
\* outbound call is ever started for it.
C1_MissingFieldIs400 ==
    (svc = "parse" /\ BodyIsObject /\ (~HasField("text") \/ ~HasField("schema")))
        => /\ pc # "call" /\ calls = 0 /\ outbound = None
           /\ pc = "done" => ParseFailure(400)

C1_Witness ==
    /\ ParseDone /\ BodyIsObject
    /\ HasField("text") /\ Field("text") = Str(Rep("a", 1)) /\ ~HasField("schema")
    /\ GatewayComplete
    /\ resp.status = 400 /\ calls = 0

\* C2: a valid POST /parse under credentials with neither a complete gateway set nor a
\* direct key is answered 500 with success=false, data=null and the configuration
\* message, and no outbound call is attempted.
C2_NoConfigIs500 ==
    (svc = "parse" /\ ValidRequest /\ ~GatewayComplete /\ ~DirectPresent)
        => /\ pc # "call" /\ calls = 0 /\ outbound = None
           /\ pc = "done" =>
                /\ ParseFailure(500)
                /\ resp.body.error =
                     <<Lit("No API configuration found. Set CF_AI_GATEWAY_* or OPENROUTER_API_KEY secrets.")>>

C2_Witness ==
    /\ ParseDone /\ ValidRequest
    /\ Present(env.CF_AI_GATEWAY_ACCOUNT_ID) /\ Present(env.CF_AI_GATEWAY_ID)
    /\ ~Present(env.CF_AIG_AUTH_TOKEN) /\ ~DirectPresent
    /\ resp.status = 500 /\ calls = 0

\* C3: the endpoint of the outbound call is a function of the credentials: the gateway
\* URL with the gateway header and token whenever the gateway set is complete, the
\* direct URL with the direct key exactly when it is not and the key is present, and
\* never a URL of one shape with the auth of the other.
GatewayShape(request) ==
    /\ request.url = <<Lit("https://gateway.ai.cloudflare.com/v1/"), Txt(env.CF_AI_GATEWAY_ACCOUNT_ID),
                       Lit("/"), Txt(env.CF_AI_GATEWAY_ID), Lit("/openrouter"), Lit("/chat/completions")>>
    /\ request.authHeader = "cf-aig-authorization"
    /\ request.authValue = <<Lit("Bearer "), Txt(env.CF_AIG_AUTH_TOKEN)>>
DirectShape(request) ==
    /\ request.url = <<Lit("https://openrouter.ai/api/v1/chat/completions")>>
    /\ request.authHeader = "Authorization"
    /\ request.authValue = <<Lit("Bearer "), Txt(env.OPENROUTER_API_KEY)>>

C3_EndpointSelection ==
    (svc = "parse" /\ outbound # None)
        => /\ GatewayComplete => GatewayShape(outbound)
           /\ DirectShape(outbound) <=> (~GatewayComplete /\ DirectPresent)
           /\ GatewayShape(outbound) \/ DirectShape(outbound)

C3_Witness ==
    /\ svc = "parse" /\ pc = "call"
    /\ GatewayComplete /\ DirectPresent
    /\ GatewayShape(outbound)

\* The first five bytes of the payload are not "%PDF-".
BadSignature == payload.byteLength < 5 \/ payload.head # <<37, 80, 68, 70, 45>>

ExtractFailure(status) ==
    /\ resp.status = status
    /\ resp.body.success = FALSE
    /\ resp.body.text = <<>>
    /\ resp.body.pageCount = 0

\* C4: a POST /extract whose first 5 bytes are not "%PDF-" (empty, shorter than 5 bytes
\* and oversized payloads included) is answered 400 with success=false, text="" and
\* pageCount=0, the engine is never invoked, and the empty payload gets
\* "No PDF data provided".
C4_BadSignatureIs400 ==
    (svc = "extract" /\ BadSignature)
        => /\ pc # "call" /\ calls = 0 /\ outbound = None
           /\ pc = "done" =>
                /\ ExtractFailure(400)
                /\ payload.byteLength = 0 => resp.body.error = <<Lit("No PDF data provided")>>

C4_Witness ==
    /\ ExtractDone
    /\ payload.byteLength > 52428800 /\ payload.head = <<37, 80, 68, 70, 0>>
    /\ resp.status = 400 /\ calls = 0

\* |a - b|
Dist(a, b) == IF a >= b THEN a - b ELSE b - a

\* C5: a POST /extract with the "%PDF-" signature is answered 413 exactly when it is
\* longer than 52,428,800 bytes (one of exactly that size goes to the engine), and the
\* 413 message carries the whole number nearest to byteLength / 1,048,576.
C5_OversizeIs413 ==
    (svc = "extract" /\ ~BadSignature)
        => /\ pc = "call" => payload.byteLength <= 52428800
           /\ pc = "done" =>
                /\ resp.status = 413 <=> payload.byteLength > 52428800
                /\ payload.byteLength = 52428800 => calls = 1 /\ outbound = payload
                /\ resp.status = 413 =>
                     /\ Len(resp.body.error) = 3
                     /\ resp.body.error[1] = Lit("PDF too large: ")
                     /\ resp.body.error[2].k = "dec"
                     /\ 2 * Dist(resp.body.error[2].dec * 1048576, payload.byteLength) <= 1048576
                     /\ resp.body.error[3] = Lit("MB exceeds 50MB limit")

C5_Witness ==
    /\ ExtractDone /\ ~BadSignature
    /\ payload.byteLength = 52428801
    /\ resp.status = 413 /\ resp.body.error[2] = Dec(50)
\* C6: a POST /parse with a string text and an object schema is answered 413
\* (success=false, data=null, no outbound call) exactly when text.length exceeds
\* 102,400 (a text of exactly 102,400 characters is accepted), and the 413 message
\* carries the whole number nearest to text.length / 1,024.
StringTextObjectSchema ==
    /\ BodyIsObject /\ HasField("text") /\ HasField("schema")
    /\ Field("text").t = "string" /\ Field("schema").t = "object"

C6_LongTextIs413 ==
    (svc = "parse" /\ StringTextObjectSchema)
        => /\ pc = "call" => StrLen(Field("text").s) <= 102400
           /\ pc = "done" =>
                /\ resp.status = 413 <=> StrLen(Field("text").s) > 102400
                /\ StrLen(Field("text").s) = 102400 => resp.status \notin {400, 413}
                /\ resp.status = 413 =>
                     /\ ParseFailure(413) /\ calls = 0 /\ outbound = None
                     /\ Len(resp.body.error) = 3
                     /\ resp.body.error[1] = Lit("Text too large: ")
                     /\ resp.body.error[2].k = "dec"
                     /\ 2 * Dist(resp.body.error[2].dec * 1024, StrLen(Field("text").s)) <= 1024
                     /\ resp.body.error[3] = Lit("KB exceeds 100KB limit")

C6_Witness ==
    /\ ParseDone /\ StringTextObjectSchema
    /\ StrLen(Field("text").s) = 102401
    /\ resp.status = 413 /\ resp.body.error[2] = Dec(100) /\ calls = 0

\* C7: every response satisfies the result invariants: for /extract success=true
\* has no error and success=false has text="" and pageCount=0; for /parse
\* success=false has data=null and success=true has no error.
C7_ResultInvariants ==
    /\ ExtractDone =>
         /\ resp.body.success = TRUE => "error" \notin DOMAIN resp.body
         /\ resp.body.success = FALSE =>
              /\ "text" \in DOMAIN resp.body /\ resp.body.text = <<>>
              /\ "pageCount" \in DOMAIN resp.body /\ resp.body.pageCount = 0
    /\ ParseDone =>
         /\ resp.body.success = FALSE => "data" \in DOMAIN resp.body /\ resp.body.data = Null
         /\ resp.body.success = TRUE => "error" \notin DOMAIN resp.body

C7_Witness ==
    /\ ParseDone /\ calls = 1
    /\ reply = [status |-> 200, body |-> Raw(Rep("x", 1))]
    /\ resp.body.success = FALSE /\ resp.body.data = Null

\* The inputs for which the code's checks let the external call start (an array
\* passes the typeof check of the schema).
ExtractAccepted == ~BadSignature /\ payload.byteLength <= 52428800
ParseAccepted ==
    /\ BodyIsObject /\ HasField("text") /\ HasField("schema")
    /\ Field("text").t = "string"
    /\ StrLen(Field("text").s) >= 1 /\ StrLen(Field("text").s) <= 102400
    /\ Field("schema").t \in {"object", "array"}
    /\ GatewayComplete \/ DirectPresent

\* C8: a request starts the external call at most once: once when validation (and,
\* for /parse, endpoint resolution) succeeds and never otherwise; a call that has
\* failed or returned an unusable reply is not started again; and the response
\* exists only once the call has settled, never while it is in flight.
C8_State ==
    /\ calls \in {0, 1}
    /\ pc \in {"idle", "body"} => calls = 0 /\ resp = None
    /\ pc = "call" => calls = 1 /\ resp = None /\ reply = None
    /\ pc = "done" =>
         /\ resp # None
         /\ calls = 1 <=> reply # None
         /\ svc = "extract" => (calls = 1 <=> ExtractAccepted)
         /\ svc = "parse" => (calls = 1 <=> ParseAccepted)

C8_Step ==
    /\ calls' # calls => \/ pc = "body" /\ pc' = "call" /\ calls' = 1
                         \/ pc = "done" /\ pc' = "idle" /\ calls' = 0
    /\ pc = "call" => pc' = "done" /\ calls' = calls /\ reply' # None /\ resp' # None

C8_AtMostOneCall == []C8_State /\ [][C8_Step]_vars

C8_Witness ==
    /\ ParseDone /\ calls = 1
    /\ reply = Error(<<Lit("fetch failed")>>)
    /\ resp.status = 500

\* The external system answered with a status and a body.
IsReply == reply # None /\ "status" \in DOMAIN reply

\* C9: when the external call of /parse answers with a status S outside 200..299 and
\* body text B, the response is 500 with success=false, data=null and the error
\* "API error (S): B", B verbatim; the body never becomes data.
C9_UpstreamErrorIs500 ==
    (ParseDone /\ IsReply /\ ~(reply.status >= 200 /\ reply.status <= 299))
        => /\ ParseFailure(500)
           /\ resp.body.error = <<Lit("API error ("), Dec(reply.status), Lit("): "), Txt(reply.body)>>

C9_Witness ==
    /\ ParseDone
    /\ reply = [status |-> 300, body |-> Ser(ChatReply(Str(EmptyObjectText)))]
    /\ resp.status = 500 /\ resp.body.data = Null

\* The content of the first choice's message, Undefined where the reply has none.
ReplyContent(v) ==
    IF /\ v.t = "object" /\ "choices" \in DOMAIN v.fields
       /\ v.fields.choices.t = "array" /\ Len(v.fields.choices.items) >= 1
       /\ v.fields.choices.items[1].t = "object"
       /\ "message" \in DOMAIN v.fields.choices.items[1].fields
       /\ v.fields.choices.items[1].fields.message.t = "object"
       /\ "content" \in DOMAIN v.fields.choices.items[1].fields.message.fields
    THEN v.fields.choices.items[1].fields.message.fields.content
    ELSE Undefined

\* The JSON texts among the model's contents, and their values.
IsJsonText(s) == s \in {NullText, EmptyObjectText, Rep("1", 2)}
JsonValue(s) ==
    CASE s = NullText -> Null
      [] s = EmptyObjectText -> Obj(NoFields)
      [] s = Rep("1", 2) -> Num(11)

\* e is the first min(100, length) characters of s
IsExcerpt(e, s) ==
    /\ StrLen(e) = Min(100, StrLen(s))
    /\ Len(e) <= Len(s)
    /\ \A i \in 1..Len(e) :
         /\ e[i].c = s[i].c
         /\ IF i < Len(e) THEN e[i].n = s[i].n ELSE e[i].n <= s[i].n

Timed == "processingTimeMs" \in DOMAIN resp.body /\ resp.body.processingTimeMs \in Nat

\* C11 as claimed: a response produced without the external call having been started
\* has no processingTimeMs, and one produced after it was started has a non-negative
\* integer processingTimeMs.
C11_TimedIffCallStarted ==
    pc = "done" =>
        /\ calls = 0 => "processingTimeMs" \notin DOMAIN resp.body
        /\ calls = 1 => Timed

\* The request body of /parse cannot be used as an object: it is no JSON, or it is null.
\* The handler then throws before any check and its catch block answers.
BodyUnreadable == payload.k = "raw" \/ payload.json.t = "null"

\* C11 as amended: the responses of the validation and of the configuration check have
\* no processingTimeMs; every response produced after the external call was started,
\* and the catch-block response to a /parse body that is no JSON or is null (no call
\* started), has a non-negative integer processingTimeMs.
C11_TimedIffCallOrCatch ==
    pc = "done" =>
        /\ svc = "extract" => (IF calls = 1 THEN Timed
                               ELSE "processingTimeMs" \notin DOMAIN resp.body)
        /\ svc = "parse" => (IF calls = 1 \/ BodyUnreadable THEN Timed
                             ELSE "processingTimeMs" \notin DOMAIN resp.body)

C11_Witness ==
    /\ ParseDone /\ calls = 0
    /\ payload = Ser(Null)
    /\ resp.status = 500 /\ resp.body.processingTimeMs = 1
\* C12: for every set of credentials, GET /health of the parse service reports
\* config.aiGateway=true exactly when POST /parse would take the gateway endpoint
\* (account id, gateway id and gateway token all present) and
\* config.directOpenRouter=true exactly when the direct key is present; so when
\* either flag is true a valid /parse is not answered with the configuration error.
C12_HealthMatchesParse ==
    (svc = "health" /\ pc = "done")
        => /\ resp.body.config.aiGateway <=> GatewayComplete
           /\ resp.body.config.aiGateway
                <=> (buildApiUrl(env).ok /\ buildApiUrl(env).authHeader = "cf-aig-authorization")
           /\ resp.body.config.directOpenRouter <=> DirectPresent
           /\ (resp.body.config.aiGateway \/ resp.body.config.directOpenRouter)
                => buildApiUrl(env).ok

\* A message: a non-empty sequence of literal, number and text segments.
IsMessage(m) ==
    /\ Len(m) >= 1
    /\ \A i \in 1..Len(m) : m[i].k \in {"lit", "dec", "txt"}

\* The response has the discriminated shape: a boolean success, status 200 exactly
\* with success=true, and otherwise 400, 413 or 500 with an error message.
Structured ==
    /\ "success" \in DOMAIN resp.body
    /\ resp.body.success \in BOOLEAN
    /\ resp.status = 200 <=> resp.body.success
    /\ ~resp.body.success =>
         /\ resp.status \in {400, 413, 500}
         /\ "error" \in DOMAIN resp.body /\ IsMessage(resp.body.error)

\* The continuation of a request in flight: one of the handler's steps answers it.
Settles ==
    \/ ExtractValidate \/ ExtractEngineReturns \/ ExtractEngineFails
    \/ ParseValidate \/ ParseFetchFails \/ ParseUpstreamError \/ ParseUpstreamOk

C13_State ==
    /\ pc # "done" => resp = None
    /\ pc \in {"body", "call"} => ENABLED Settles
    /\ (pc = "done" /\ svc \in {"extract", "parse"}) => resp # None /\ Structured

C13_Step ==
    /\ resp # None => resp' = resp \/ (pc = "done" /\ pc' = "idle" /\ resp' = None)
    /\ pc \in {"body", "call"} => pc' \in {"call", "done"}

\* C13: every POST /parse and POST /extract, whatever its body and whatever the
\* external system does, is answered exactly once, by a response of the discriminated
\* shape with a boolean success: status 200 exactly when success=true, otherwise 400,
\* 413 or 500 with an error message; the response is not replaced once given, and a
\* request in flight is never dropped without one.
C13_OneStructuredResponse == []C13_State /\ [][C13_Step]_vars

C13_Witness ==
    /\ ExtractDone /\ calls = 1
    /\ reply = NonError
    /\ resp.status = 500 /\ resp.body.success = FALSE
    /\ resp.body.error = <<Lit("Unknown extraction error")>>

\* The caller's value of an optional field, or the default when the field is absent.
Opt(key, dflt) == IF HasField(key) THEN Field(key) ELSE dflt

\* "google/gemini-2.5-flash-lite" has 28 characters and the generic prompt 90.
DefaultsAsDocumented ==
    /\ StrLen(DefaultModel.s) = 28 /\ DefaultModel.s[1] = [c |-> "g", n |-> 1]
    /\ StrLen(DefaultSystemPrompt.s) = 90 /\ DefaultSystemPrompt.s[1] = [c |-> "E", n |-> 1]

\* The parts of the outbound body that do not depend on providerSort.
OutboundFields ==
    /\ DefaultsAsDocumented
    /\ outbound.body.system = Opt("systemPrompt", DefaultSystemPrompt)
    /\ outbound.body.model = Opt("model", DefaultModel)
    /\ outbound.body.temperature = Opt("temperature", Num(0))
    /\ outbound.body.max_tokens = Opt("maxTokens", Num(4096))
    /\ outbound.body.user = Field("text")
    /\ outbound.body.schema = Field("schema")
    /\ outbound.body.strict = TRUE
    /\ "provider" \in DOMAIN outbound.body =>
         outbound.body.provider = [sort |-> Field("providerSort"), require_parameters |-> TRUE,
                                   allow_fallbacks |-> FALSE]

\* C14 as claimed: the outbound /parse request takes each of systemPrompt, model,
\* temperature and maxTokens from the caller unchanged, or its default exactly when
\* absent; carries the caller's schema unchanged with strict=true; and has the
\* provider-routing block exactly when providerSort was supplied.
C14_ProviderIffSupplied ==
    (svc = "parse" /\ outbound # None)
        => /\ OutboundFields
           /\ "provider" \in DOMAIN outbound.body <=> HasField("providerSort")

\* null, false, 0 and the empty string
Falsy(v) == v \in {Null, Bool(FALSE), Num(0), Str(<<>>)}

\* C14 as amended: the same, but the provider-routing block is present exactly when
\* providerSort was supplied with a value other than null, false, 0 or the empty
\* string (an empty list counts as supplied).
C14_ProviderIffTruthy ==
    (svc = "parse" /\ outbound # None)
        => /\ OutboundFields
           /\ "provider" \in DOMAIN outbound.body
                <=> (HasField("providerSort") /\ ~Falsy(Field("providerSort")))

C14_Witness ==
    /\ svc = "parse" /\ pc = "call"
    /\ HasField("providerSort") /\ Field("providerSort") = Null
    /\ "provider" \notin DOMAIN outbound.body
    /\ outbound.body.temperature = Num(0) /\ outbound.body.max_tokens = Num(4096)

\* The text of the request is a non-empty string.
TextGiven == HasField("text") /\ Field("text").t = "string" /\ Field("text").s # <<>>

\* C16: a POST /parse whose schema is a JSON value other than an object (null, a
\* boolean, a number, a string or an array) is answered 400 with no outbound call,
\* with "Missing or invalid 'schema' field" when its text is a non-empty string; and
\* one whose text is a JSON value other than a non-empty string is answered 400
\* "Missing or invalid 'text' field".
C16_NonObjectSchemaIs400 ==
    (svc = "parse" /\ BodyIsObject)
        => /\ (HasField("schema") /\ Field("schema").t # "object")
                => /\ pc # "call" /\ calls = 0 /\ outbound = None
                   /\ pc = "done" =>
                        /\ ParseFailure(400)
                        /\ TextGiven => resp.body.error = <<Lit("Missing or invalid 'schema' field")>>
           /\ (HasField("text") /\ ~TextGiven)
                => /\ pc # "call" /\ calls = 0 /\ outbound = None
                   /\ pc = "done" =>
                        /\ ParseFailure(400)
                        /\ resp.body.error = <<Lit("Missing or invalid 'text' field")>>

\* The checks of /parse, each on its own.  The schema check is the one that runs: it
\* fails for an absent schema, null, a boolean, a number and a string (an array passes
\* it, see C16).
TextCheckFails == ~TextGiven
SchemaCheckFails ==
    ~HasField("schema") \/ Field("schema").t \in {"null", "boolean", "number", "string"}
SizeCheckFails == StrLen(Field("text").s) > 102400
ConfigCheckFails == ~GatewayComplete /\ ~DirectPresent

Rejected(status, message) ==
    /\ resp.status = status /\ resp.body.success = FALSE
    /\ resp.body.error = message
    /\ calls = 0 /\ outbound = None

\* C17: the checks run in a fixed order and the first failing one alone decides the
\* response.  For /parse: text field, schema field, text size, endpoint
\* configuration, then the external call, whose request (defaults included) exists
\* only when all four passed.  For /extract: empty payload, signature, size, then
\* the engine.
C17_FirstFailingCheckDecides ==
    /\ (ParseDone /\ BodyIsObject) =>
         IF TextCheckFails
         THEN Rejected(400, <<Lit("Missing or invalid 'text' field")>>)
         ELSE IF SchemaCheckFails
         THEN Rejected(400, <<Lit("Missing or invalid 'schema' field")>>)
         ELSE IF SizeCheckFails
         THEN /\ Len(resp.body.error) = 3
              /\ Rejected(413, <<Lit("Text too large: "), resp.body.error[2],
                                 Lit("KB exceeds 100KB limit")>>)
         ELSE IF ConfigCheckFails
         THEN Rejected(500, <<Lit("No API configuration found. Set CF_AI_GATEWAY_* or OPENROUTER_API_KEY secrets.")>>)
         ELSE calls = 1 /\ outbound # None
    /\ (svc = "parse" /\ outbound # None) =>
         /\ BodyIsObject
         /\ ~TextCheckFails /\ ~SchemaCheckFails /\ ~SizeCheckFails /\ ~ConfigCheckFails
    /\ ExtractDone =>
         IF payload.byteLength = 0
         THEN Rejected(400, <<Lit("No PDF data provided")>>)
         ELSE IF BadSignature
         THEN Rejected(400, <<Lit("Invalid PDF format: missing PDF header")>>)
         ELSE IF payload.byteLength > 52428800
         THEN /\ Len(resp.body.error) = 3
              /\ Rejected(413, <<Lit("PDF too large: "), resp.body.error[2],
                                 Lit("MB exceeds 50MB limit")>>)
         ELSE calls = 1 /\ outbound = payload

C17_Witness ==
    /\ ParseDone /\ BodyIsObject
    /\ HasField("text") /\ Field("text").t = "string" /\ StrLen(Field("text").s) > 102400
    /\ HasField("schema") /\ Field("schema") = Null
    /\ ConfigCheckFails
    /\ resp.status = 400
    /\ resp.body.error = <<Lit("Missing or invalid 'schema' field")>>

(***************************************************************************)
(* Two requests in flight in one worker.  The handlers have no module-level *)
(* binding but app and their locals live in the handler's closure, so each  *)
(* per-request variable is here a function from the requests to the local   *)
(* of each; svc is the worker's service, env its bindings and now its clock.*)
(* The await points are the steps, which interleave freely.                 *)
(***************************************************************************)
Requests == {1, 2}
Other(i) == 3 - i
ConcDelays == {0, 1}

ConcEnvs ==
    { [CF_AI_GATEWAY_ACCOUNT_ID |-> Undefined, CF_AI_GATEWAY_ID |-> Undefined,
       CF_AIG_AUTH_TOKEN |-> Undefined, OPENROUTER_API_KEY |-> Undefined],
      [CF_AI_GATEWAY_ACCOUNT_ID |-> Undefined, CF_AI_GATEWAY_ID |-> Undefined,
       CF_AIG_AUTH_TOKEN |-> Undefined, OPENROUTER_API_KEY |-> Key] }

ConcBuffers ==
    { [head |-> <<>>, byteLength |-> 0],
      [head |-> <<37, 80, 68, 70, 0>>, byteLength |-> 6],
      [head |-> MagicBytes, byteLength |-> 5],
      [head |-> MagicBytes, byteLength |-> 6],
      [head |-> MagicBytes, byteLength |-> 7],
      [head |-> MagicBytes, byteLength |-> maxSize + 1] }

ConcBodies ==
    { Raw(<<>>), Ser(Null),
      Ser(Obj([text |-> Str(Rep("a", 1))])),
      Ser(Obj([text |-> Str(Rep("a", 1)), schema |-> SomeSchema])),
      Ser(Obj([text |-> Str(Rep("b", 1)), schema |-> SomeSchema, model |-> Str(Rep("m", 1))])) }

ConcReplies ==
    { [status |-> 200, body |-> Ser(ChatReply(Str(EmptyObjectText)))],
      [status |-> 200, body |-> Ser(ChatReply(Str(Rep("x", 1))))],
      [status |-> 500, body |-> Raw(Rep("x", 3))],
      Error(<<Lit("fetch failed")>>) }

\* A deterministic engine double: the bare header is no document, and every byte
\* after the header is a page holding one character.
EngineDouble(buffer) ==
    IF buffer.byteLength = 5 THEN Error(<<Lit("Invalid PDF structure.")>>)
    ELSE [text |-> Str(Rep("a", buffer.byteLength - 5)), totalPages |-> buffer.byteLength - 5]

\* /extract from the settling of the engine to the response, lines 106-135.
ExtractSettle(result, start, tstart, end) ==
    IF "isError" \in DOMAIN result
    THEN ExtractCatch(result, start, end)
    ELSE ExtractSuccess(result, withTimingDuration(tstart, end))

\* /parse from the settling of fetch to the response, lines 175-277.
ParseSettle(r, start, tstart, end) ==
    IF "isError" \in DOMAIN r
    THEN ParseCatch(r, start, end)
    ELSE IF ~Ok(r.status)
    THEN ParseCatch(Error(<<Lit("API error ("), Dec(r.status), Lit("): "), Txt(BodyText(r.body))>>),
                    start, end)
    ELSE LET read == ReadJson(r.body)
             step == IF read.ok
                     THEN ParseNormalize(read.value, withTimingDuration(tstart, end))
                     ELSE [kind |-> "throw", error |-> read.error]
         IN  IF step.kind = "throw" THEN ParseCatch(step.error, start, end) ELSE step.resp

ConcInit ==
    /\ \/ svc = "extract" /\ env = None
       \/ svc = "parse" /\ env \in ConcEnvs
    /\ pc = [i \in Requests |-> "idle"]
    /\ payload = [i \in Requests |-> None]
    /\ now = 0
    /\ startTime = [i \in Requests |-> 0]
    /\ timingStart = [i \in Requests |-> 0]
    /\ calls = [i \in Requests |-> 0]
    /\ outbound = [i \in Requests |-> None]
    /\ reply = [i \in Requests |-> None]
    /\ resp = [i \in Requests |-> None]

\* Request i arrives at /extract.
ConcExtractArrive(i) ==
    /\ svc = "extract" /\ pc[i] = "idle"
    /\ \E buffer \in ConcBuffers, d \in ConcDelays :
        /\ payload' = [payload EXCEPT ![i] = buffer]
        /\ now' = now + d
        /\ startTime' = [startTime EXCEPT ![i] = now']
    /\ pc' = [pc EXCEPT ![i] = "body"]
    /\ UNCHANGED <<svc, env, timingStart, calls, outbound, reply, resp>>

\* Fault: the buffer is kept in a module-level binding, which the request that
\* arrived meanwhile has overwritten.
ConcExtractValidateShared(i) ==
    /\ svc = "extract" /\ pc[i] = "body"
    /\ \E d \in ConcDelays : now' = now + d
    /\ LET buffer == IF pc[Other(i)] # "idle" THEN payload[Other(i)] ELSE payload[i]
           rejection == ExtractRejection(buffer)
       IN  IF rejection # None
           THEN /\ resp' = [resp EXCEPT ![i] = rejection]
                /\ pc' = [pc EXCEPT ![i] = "done"]
                /\ UNCHANGED <<timingStart, calls, outbound>>
           ELSE /\ timingStart' = [timingStart EXCEPT ![i] = now']
                /\ calls' = [calls EXCEPT ![i] = @ + 1]
                /\ outbound' = [outbound EXCEPT ![i] = buffer]
                /\ pc' = [pc EXCEPT ![i] = "call"]
                /\ UNCHANGED resp
    /\ UNCHANGED <<svc, env, payload, startTime, reply>>

\* The body of request i has arrived: validation, then a rejection or the engine.
ConcExtractValidate(i) ==
    /\ svc = "extract" /\ pc[i] = "body"
    /\ \E d \in ConcDelays : now' = now + d
    /\ LET buffer == payload[i]
           rejection == ExtractRejection(buffer)
       IN  IF rejection # None
           THEN /\ resp' = [resp EXCEPT ![i] = rejection]
                /\ pc' = [pc EXCEPT ![i] = "done"]
                /\ UNCHANGED <<timingStart, calls, outbound>>
           ELSE /\ timingStart' = [timingStart EXCEPT ![i] = now']
                /\ calls' = [calls EXCEPT ![i] = @ + 1]
                /\ outbound' = [outbound EXCEPT ![i] = buffer]
                /\ pc' = [pc EXCEPT ![i] = "call"]
                /\ UNCHANGED resp
    /\ UNCHANGED <<svc, env, payload, startTime, reply>>

\* The engine settles for request i.
ConcExtractSettle(i) ==
    /\ svc = "extract" /\ pc[i] = "call"
    /\ \E d \in ConcDelays :
        /\ now' = now + d
        /\ reply' = [reply EXCEPT ![i] = EngineDouble(outbound[i])]
        /\ resp' = [resp EXCEPT ![i] =
                       ExtractSettle(reply'[i], startTime[i], timingStart[i], now')]
    /\ pc' = [pc EXCEPT ![i] = "done"]
    /\ UNCHANGED <<svc, env, payload, startTime, timingStart, calls, outbound>>

\* Request i arrives at /parse.
ConcParseArrive(i) ==
    /\ svc = "parse" /\ pc[i] = "idle"
    /\ \E body \in ConcBodies, d \in ConcDelays :
        /\ payload' = [payload EXCEPT ![i] = body]
        /\ now' = now + d
        /\ startTime' = [startTime EXCEPT ![i] = now']
    /\ pc' = [pc EXCEPT ![i] = "body"]
    /\ UNCHANGED <<svc, env, timingStart, calls, outbound, reply, resp>>

\* The JSON body of request i settles: validation, endpoint, then a response or fetch.
ConcParseValidate(i) ==
    /\ svc = "parse" /\ pc[i] = "body"
    /\ \E d \in ConcDelays : now' = now + d
    /\ LET read == ReadJson(payload[i])
           step == IF read.ok THEN ParseDecide(read.value, env)
                   ELSE [kind |-> "throw", error |-> read.error]
       IN  CASE step.kind = "throw" ->
                  /\ resp' = [resp EXCEPT ![i] = ParseCatch(step.error, startTime[i], now')]
                  /\ pc' = [pc EXCEPT ![i] = "done"]
                  /\ UNCHANGED <<timingStart, calls, outbound>>
             [] step.kind = "respond" ->
                  /\ resp' = [resp EXCEPT ![i] = step.resp]
                  /\ pc' = [pc EXCEPT ![i] = "done"]
                  /\ UNCHANGED <<timingStart, calls, outbound>>
             [] step.kind = "fetch" ->
                  /\ timingStart' = [timingStart EXCEPT ![i] = now']
                  /\ calls' = [calls EXCEPT ![i] = @ + 1]
                  /\ outbound' = [outbound EXCEPT ![i] = step.request]
                  /\ pc' = [pc EXCEPT ![i] = "call"]
                  /\ UNCHANGED resp
    /\ UNCHANGED <<svc, env, payload, startTime, reply>>

\* fetch settles for request i.
ConcParseSettle(i) ==
    /\ svc = "parse" /\ pc[i] = "call"
    /\ \E r \in ConcReplies, d \in ConcDelays :
        /\ now' = now + d
        /\ reply' = [reply EXCEPT ![i] = r]
        /\ resp' = [resp EXCEPT ![i] = ParseSettle(r, startTime[i], timingStart[i], now')]
    /\ pc' = [pc EXCEPT ![i] = "done"]
    /\ UNCHANGED <<svc, env, payload, startTime, timingStart, calls, outbound>>

ConcNext ==
    \E i \in Requests :
        \/ ConcExtractArrive(i)
        \/ ConcExtractValidate(i)
        \/ ConcExtractSettle(i)
        \/ ConcParseArrive(i)
        \/ ConcParseValidate(i)
        \/ ConcParseSettle(i)

SpecConc == ConcInit /\ [][ConcNext]_vars

\* A response without its processingTimeMs, which is the clock's and not the request's.
Strip(r) ==
    [status |-> r.status,
     body |-> [k \in DOMAIN r.body \ {"processingTimeMs"} |-> r.body[k]]]

\* The response a /extract request with these bytes gets when handled alone, and
\* the one a /parse request with this body gets under credentials e and reply r.
AloneExtract(buffer) ==
    LET rejection == ExtractRejection(buffer) IN
    IF rejection # None THEN rejection ELSE ExtractSettle(EngineDouble(buffer), 0, 0, 0)
AloneParse(body, e, r) ==
    LET read == ReadJson(body)
        step == IF read.ok THEN ParseDecide(read.value, e)
                ELSE [kind |-> "throw", error |-> read.error]
    IN  CASE step.kind = "throw" -> ParseCatch(step.error, 0, 0)
          [] step.kind = "respond" -> step.resp
          [] step.kind = "fetch" -> ParseSettle(r, 0, 0, 0)

\* The locals of request i.
Locals(i) ==
    <<pc[i], payload[i], startTime[i], timingStart[i], calls[i], outbound[i], reply[i], resp[i]>>

C15_State ==
    \A i \in Requests :
        /\ pc[i] = "done" =>
             /\ svc = "extract" => Strip(resp[i]) = Strip(AloneExtract(payload[i]))
             /\ svc = "parse" => Strip(resp[i]) = Strip(AloneParse(payload[i], env, reply[i]))
             /\ "processingTimeMs" \in DOMAIN resp[i].body => resp[i].body.processingTimeMs \in Nat
        /\ (svc = "extract" /\ outbound[i] # None) => outbound[i] = payload[i]
        /\ \A j \in Requests :
             (/\ svc = "extract" /\ pc[i] = "done" /\ pc[j] = "done"
              /\ payload[i] = payload[j] /\ resp[i].status = 200)
                => /\ resp[j].status = 200
                   /\ resp[j].body.text = resp[i].body.text
                   /\ resp[j].body.pageCount = resp[i].body.pageCount

C15_Step ==
    /\ \A i \in Requests : pc'[i] = pc[i] => Locals(i)' = Locals(i)
    /\ svc' = svc /\ env' = env

\* C15: with two requests in flight in any interleaving, each response is, but for
\* processingTimeMs, the one its own payload, the credentials and its own reply
\* give when the request is handled alone; a step of one request leaves the other
\* request's locals and the worker's bindings as they were; and the same valid PDF
\* submitted twice to a deterministic engine gets the same text and pageCount.
C15_ResponseIsOwn == []C15_State /\ [][C15_Step]_vars

C15_Witness ==
    /\ svc = "extract" /\ pc[1] = "done" /\ pc[2] = "done"
    /\ payload[1] = payload[2] /\ payload[1].byteLength = 7
    /\ startTime[1] < startTime[2] /\ timingStart[2] < timingStart[1]
    /\ resp[1].status = 200 /\ resp[2].body.pageCount = 2
    /\ resp[1].body.processingTimeMs # resp[2].body.processingTimeMs

====
